---- MODULE Spec2Model ----
(***************************************************************************)
(* Model of the AD9833 driver class of AD9833_Sine_Sq_Trang.py: the cached *)
(* fields of the object, the 16-bit words it hands to the SPI bus, and the *)
(* three operations that write them (__init__, set_waveform_mode,          *)
(* set_frequency).  A bus write either delivers its word or raises; a      *)
(* raise leaves the method at once (the class has no try/except), so the   *)
(* words of one call that reach the bus are a prefix of the words the      *)
(* method would write.                                                     *)
(*                                                                         *)
(* A frequency is a dyadic rational num/den (den a power of two dividing   *)
(* 2^28), which is what a Python float holds; the float product and        *)
(* quotient of line 60 are exact enough on the inputs used here that the   *)
(* result is the exact quotient rounded half-to-even (Python 3 round).     *)
(*                                                                         *)
(* Three specifications: Spec, any caller of the class; TuneSpec, the      *)
(* tuning word of line 60 as a function; MainSpec, the program of lines    *)
(* 92-174 (start-up, the interactive loop, the finally block).             *)
(***************************************************************************)
EXTENDS Integers, Sequences, FiniteSets, TLC

\* ---- class constants (lines 12-24) ----
DDS_CLOCK == 25000000
DDS_MAX_FREQ == 268435456
DDS_B28 == 13
DDS_FSELECT == 11
DDS_RESET == 8
DDS_OPBITEN == 5
DDS_MODE == 1
DDS_SINE == 0
DDS_TRIANGLE == 2^DDS_MODE
DDS_SQUARE == 2^DDS_OPBITEN

\* ---- bounds ----
\* number of method calls made on the object after its construction
MaxCalls == 2
\* number of words on the bus
MaxWire == 8
\* number of passes through the interactive loop
MaxIterations == 2

\* ---- inputs ----
Modes == {DDS_SINE, DDS_TRIANGLE, DDS_SQUARE}
Registers == {0, 1}
Hz(n) == [num |-> n, den |-> 1]
\* 1953125 / 2^23 Hz is the float whose quotient at line 60 is exactly 2.5
HalfwayHz == [num |-> 1953125, den |-> 8388608]
FreqInputs == {Hz(0), HalfwayHz, Hz(1000), Hz(5000), Hz(30000000)}
PhaseInputs == {0, 4096}
\* the value of a field before line 40-42 assigned it
UnsetInt == -1
UnsetFreq == [num |-> 0, den |-> 0]

\* ---- Python integer operators ----
RECURSIVE BitOr(_, _)
\* a | b on non-negative integers
BitOr(a, b) ==
    IF a = 0 THEN b
    ELSE IF b = 0 THEN a
    ELSE (IF a % 2 = 1 \/ b % 2 = 1 THEN 1 ELSE 0) + 2 * BitOr(a \div 2, b \div 2)

\* x & (2^n - 1): the low n bits, also of a negative x
LowBits(x, n) == x % (2^n)
\* x >> n: floor division, also of a negative x
Shr(x, n) == x \div (2^n)
\* bit n of x
HasBit(x, n) == Shr(x, n) % 2 = 1

RECURSIVE MulDivQR(_, _, _)
\* <<q, r>> with a * b = q * m + r and 0 <= r < m, for a >= 0, without forming a * b
MulDivQR(a, b, m) ==
    IF a = 0 THEN <<0, 0>>
    ELSE LET h == MulDivQR(a \div 2, b, m)
             t == 2 * h[2] + (a % 2) * b
         IN  <<2 * h[1] + (t \div m), t % m>>

\* (a variant that always rounds a fractional quotient up)
RoundHalfEven_Ceil(q, r, m) == IF r = 0 THEN q ELSE q + 1

\* (a variant with the two comparisons exchanged)
RoundHalfEven_Inverted(q, r, m) ==
    IF 2 * r < m THEN q + 1
    ELSE IF 2 * r > m THEN q
    ELSE IF q % 2 = 0 THEN q ELSE q + 1

\* round() of Python 3 on the non-negative quotient q + r/m: ties go to the even integer
RoundHalfEven(q, r, m) ==
    IF 2 * r < m THEN q
    ELSE IF 2 * r > m THEN q + 1
    ELSE IF q % 2 = 0 THEN q ELSE q + 1

Abs(x) == IF x < 0 THEN -x ELSE x

\* line 60: int(round(freq * DDS_MAX_FREQ / DDS_CLOCK))
TuningWord(freq) ==
    LET qr == MulDivQR(Abs(freq.num), DDS_MAX_FREQ \div freq.den, DDS_CLOCK)
        mag == RoundHalfEven(qr[1], qr[2], DDS_CLOCK)
    IN  IF freq.num < 0 THEN -mag ELSE mag

\* line 65
RegSel(register) == IF register # 0 THEN 32768 ELSE 16384

\* line 70: (regsel | (freq_setting & 0x3FFF)) & 0xFFFF
LsbWord(freq_setting, register) ==
    LowBits(BitOr(RegSel(register), LowBits(freq_setting, 14)), 16)

\* (a variant that shifts by 13)
MsbWord_Shift13(freq_setting, register) ==
    LowBits(BitOr(RegSel(register), LowBits(Shr(freq_setting, 13), 14)), 16)

\* line 73: (regsel | ((freq_setting >> 14) & 0x3FFF)) & 0xFFFF
MsbWord(freq_setting, register) ==
    LowBits(BitOr(RegSel(register), LowBits(Shr(freq_setting, 14), 14)), 16)

\* line 77: 0xc000 | phase
PhaseWord(phase) == BitOr(49152, phase)

\* (a variant that writes the two words in the other order)
InitWords_Swapped == <<BitOr(2^DDS_B28, DDS_SINE), 2^DDS_RESET>>

\* lines 45-46: the two words of __init__ (waveform_mode is DDS_SINE there)
InitWords == <<2^DDS_RESET, BitOr(2^DDS_B28, DDS_SINE)>>

\* (a variant whose last word keeps the reset bit)
SetFrequencyWords_ResetKept(mode, freq, register, phase) ==
    LET freq_setting == TuningWord(freq)
        modebits == BitOr(2^DDS_B28, mode)
    IN  << BitOr(2^DDS_RESET, modebits),
           LsbWord(freq_setting, register),
           MsbWord(freq_setting, register),
           PhaseWord(phase),
           BitOr(2^DDS_RESET, modebits) >>

\* (a variant whose first word lacks the reset bit)
SetFrequencyWords_NoReset(mode, freq, register, phase) ==
    LET freq_setting == TuningWord(freq)
        modebits == BitOr(2^DDS_B28, mode)
    IN  << modebits,
           LsbWord(freq_setting, register),
           MsbWord(freq_setting, register),
           PhaseWord(phase),
           modebits >>

\* (a variant whose last word drops the mode bits)
SetFrequencyWords_ModeDropped(mode, freq, register, phase) ==
    LET freq_setting == TuningWord(freq)
        modebits == BitOr(2^DDS_B28, mode)
    IN  << BitOr(2^DDS_RESET, modebits),
           LsbWord(freq_setting, register),
           MsbWord(freq_setting, register),
           PhaseWord(phase),
           2^DDS_B28 >>

\* lines 60-79: the five words of set_frequency, in the order of its write calls
SetFrequencyWords(mode, freq, register, phase) ==
    LET freq_setting == TuningWord(freq)
        modebits == BitOr(2^DDS_B28, mode)
    IN  << BitOr(2^DDS_RESET, modebits),
           LsbWord(freq_setting, register),
           MsbWord(freq_setting, register),
           PhaseWord(phase),
           modebits >>

\* (a variant that also sets the B28 bit)
SetWaveformModeWords_WithB28(mode, channel) ==
    << BitOr(2^DDS_B28, IF channel # 0 THEN BitOr(mode, 2^DDS_FSELECT) ELSE mode) >>

\* (a variant that ORs in the register-select prefix instead of FSELECT)
SetWaveformModeWords_RegSel(mode, channel) ==
    << IF channel # 0 THEN BitOr(mode, 32768) ELSE mode >>

\* lines 84-88: the word of set_waveform_mode
SetWaveformModeWords(mode, channel) ==
    << IF channel # 0 THEN BitOr(mode, 2^DDS_FSELECT) ELSE mode >>

\* (a variant that goes on with the remaining writes after the one that raised)
Written_SkipFailed(words, failAt) ==
    IF failAt = 0 THEN words
    ELSE SubSeq(words, 1, failAt - 1) \o SubSeq(words, failAt + 1, Len(words))

\* lines 48-52: the writes of one method call, the failAt-th of which raises
\* (failAt = 0: none raises); the words before it reached the bus
Written(words, failAt) ==
    IF failAt = 0 THEN words ELSE SubSeq(words, 1, failAt - 1)

VARIABLES pc, waveform_mode, active_channel, frequency, wire, calls

vars == <<pc, waveform_mode, active_channel, frequency, wire, calls>>

\* one entry of the call history: the call, its arguments, the write that
\* raised (0: none), the number of words on the bus and the cached fields
\* when the call began
Call(op, mode, freq, register, phase, failAt) ==
    [op |-> op, mode |-> mode, freq |-> freq, register |-> register,
     phase |-> phase, failAt |-> failAt, start |-> Len(wire),
     pre |-> [waveform_mode |-> waveform_mode,
              active_channel |-> active_channel,
              frequency |-> frequency]]

Init ==
    /\ pc = "Uninitialized"
    /\ waveform_mode = UnsetInt
    /\ active_channel = UnsetInt
    /\ frequency = UnsetFreq
    /\ wire = <<>>
    /\ calls = <<>>

\* (a variant that caches frequency 0)
Initialize_ZeroFrequency(failAt) ==
    /\ pc = "Uninitialized"
    /\ waveform_mode' = DDS_SINE
    /\ active_channel' = 0
    /\ frequency' = Hz(0)
    /\ wire' = wire \o Written(InitWords, failAt)
    /\ pc' = IF failAt = 0 THEN "Ready" ELSE "Failed"
    /\ calls' = Append(calls, Call("__init__", DDS_SINE, UnsetFreq, 0, 0, failAt))

\* AD9833.__init__ (lines 26-46)
Initialize(failAt) ==
    /\ pc = "Uninitialized"
    /\ waveform_mode' = DDS_SINE
    /\ active_channel' = 0
    /\ frequency' = Hz(1000)
    /\ wire' = wire \o Written(InitWords, failAt)
    /\ pc' = IF failAt = 0 THEN "Ready" ELSE "Failed"
    /\ calls' = Append(calls, Call("__init__", DDS_SINE, UnsetFreq, 0, 0, failAt))

\* AD9833.set_waveform_mode (lines 81-88)
SetWaveformMode(mode, failAt) ==
    /\ pc = "Ready"
    /\ Len(calls) < 1 + MaxCalls
    /\ Len(wire) + 1 <= MaxWire
    /\ waveform_mode' = mode
    /\ wire' = wire \o Written(SetWaveformModeWords(mode, active_channel), failAt)
    /\ calls' = Append(calls, Call("set_waveform_mode", mode, UnsetFreq, 0, 0, failAt))
    /\ UNCHANGED <<pc, active_channel, frequency>>

\* AD9833.set_frequency (lines 54-79)
SetFrequency(freq, register, phase, failAt) ==
    /\ pc = "Ready"
    /\ Len(calls) < 1 + MaxCalls
    /\ Len(wire) + 5 <= MaxWire
    /\ active_channel' = register
    /\ frequency' = freq
    /\ wire' = wire \o Written(SetFrequencyWords(waveform_mode, freq, register, phase), failAt)
    /\ calls' = Append(calls, Call("set_frequency", waveform_mode, freq, register, phase, failAt))
    /\ UNCHANGED <<pc, waveform_mode>>

Next ==
    \/ \E failAt \in 0..2 : Initialize(failAt)
    \/ \E mode \in Modes, failAt \in 0..1 : SetWaveformMode(mode, failAt)
    \/ \E freq \in FreqInputs, register \in Registers, phase \in PhaseInputs, failAt \in 0..5 :
          SetFrequency(freq, register, phase, failAt)

Spec == Init /\ [][Next]_vars

\* ---- reading the history ----
Last == calls[Len(calls)]
LastWords == SubSeq(wire, Last.start + 1, Len(wire))
Ok(c) == c.failAt = 0
\* the register a word addresses: its bits 15 and 14 (0: control register)
TopBits(w) == Shr(w, 14) % 4
IsControl(w) == TopBits(w) = 0

IsSetFrequency(c) == c.op = "set_frequency"
IsSetWaveformMode(c) == c.op = "set_waveform_mode"
Called == Len(calls) > 0

TypeOK ==
    /\ pc \in {"Uninitialized", "Ready", "Failed"}
    /\ Len(calls) <= 1 + MaxCalls
    /\ \A i \in 1..Len(wire) : wire[i] \in Nat

\* ---- C1 ----
\* C1: a set_frequency call none of whose writes raises puts exactly five
\* words on the bus: a control word with the reset bit, the frequency word
\* of the chosen register carrying the low 14 bits of the tuning word, the
\* frequency word carrying the next 14 bits, a phase-register word, and a
\* control word without the reset bit that is the first word minus that bit.
C1_FiveWordSequence ==
    (Called /\ IsSetFrequency(Last) /\ Ok(Last)) =>
        LET w == LastWords
            tw == TuningWord(Last.freq)
            sel == IF Last.register = 1 THEN 2 ELSE 1
        IN  /\ Len(w) = 5
            /\ IsControl(w[1]) /\ HasBit(w[1], DDS_RESET)
            /\ TopBits(w[2]) = sel /\ w[2] % 16384 = tw % 16384
            /\ TopBits(w[3]) = sel /\ w[3] % 16384 = (tw \div 16384) % 16384
            /\ TopBits(w[4]) = 3
            /\ IsControl(w[5]) /\ ~HasBit(w[5], DDS_RESET)
            /\ w[1] = w[5] + 256

C1_Witness ==
    /\ Called /\ IsSetFrequency(Last) /\ Ok(Last)
    /\ Last.freq = Hz(5000) /\ Last.register = 1 /\ Last.mode = DDS_SQUARE

\* ---- C2 ----
\* C2: every frequency- or phase-register word on the bus (bits 15..14 not
\* 00) comes after a control word, and the nearest control word before it
\* has both the reset bit and the B28 bit.
C2_LoadOnlyWhileReady ==
    \A i \in 1..Len(wire) :
        ~IsControl(wire[i]) =>
            \E j \in 1..(i - 1) :
                /\ IsControl(wire[j])
                /\ \A k \in (j + 1)..(i - 1) : ~IsControl(wire[k])
                /\ HasBit(wire[j], DDS_RESET)
                /\ HasBit(wire[j], DDS_B28)

\* a register word was written in a call that followed a write failure
\* and a mode change
C2_Witness ==
    /\ Len(calls) = 3
    /\ IsSetWaveformMode(calls[2]) /\ Ok(calls[2])
    /\ IsSetFrequency(Last) /\ Last.failAt = 4

\* ---- C3 ----
\* C3: every control word written by set_frequency or set_waveform_mode has
\* the FSELECT bit exactly when the active channel is 1.
C3_ControlWordsReflectChannel ==
    (Called /\ (IsSetFrequency(Last) \/ IsSetWaveformMode(Last))) =>
        \A i \in 1..Len(LastWords) :
            IsControl(LastWords[i]) =>
                (HasBit(LastWords[i], DDS_FSELECT) <=> active_channel = 1)

\* ---- C4 ----
\* C4: set_waveform_mode(mode) caches mode and writes the single word
\* B28 | mode | (FSELECT when the current channel is 1).
C4_WaveformModeWritesControlWord ==
    (Called /\ IsSetWaveformMode(Last) /\ Ok(Last)) =>
        /\ waveform_mode = Last.mode
        /\ LastWords = << 8192 + Last.mode + (IF active_channel = 1 THEN 2048 ELSE 0) >>

\* ---- C5 ----
\* C5: a set_frequency call one of whose writes raises leaves the cached
\* frequency and active channel as they were before the call.
C5_FailureKeepsCachedState ==
    (Called /\ IsSetFrequency(Last) /\ ~Ok(Last)) =>
        /\ frequency = Last.pre.frequency
        /\ active_channel = Last.pre.active_channel

\* ---- C6 ----
\* C6: a set_frequency call with a frequency <= 0, or whose tuning word
\* does not fit in 28 bits, writes no word and leaves the cached state as
\* it was.
C6_OutOfRangeRejected ==
    (Called /\ IsSetFrequency(Last)
        /\ (Last.freq.num <= 0 \/ TuningWord(Last.freq) >= DDS_MAX_FREQ)) =>
        /\ LastWords = <<>>
        /\ frequency = Last.pre.frequency
        /\ active_channel = Last.pre.active_channel
        /\ waveform_mode = Last.pre.waveform_mode

\* ---- C7 ----
\* the history __init__, set_waveform_mode(Square), set_frequency(5000, 0),
\* no write raising
C7_Scenario ==
    /\ Len(calls) = 3
    /\ \A i \in 1..3 : Ok(calls[i])
    /\ IsSetWaveformMode(calls[2]) /\ calls[2].mode = DDS_SQUARE
    /\ IsSetFrequency(calls[3]) /\ calls[3].freq = Hz(5000)
    /\ calls[3].register = 0 /\ calls[3].phase = 0

\* C7 as stated: the scenario puts seven words on the bus, the third being
\* reset + B28 with the Sine mode bits.
C7_SevenWordsSineInReset ==
    C7_Scenario => wire = <<256, 8192, 8448, 20919, 16387, 49152, 8224>>

\* C7 amended: the scenario puts eight words on the bus: reset, B28, the
\* mode word of set_waveform_mode (Square bits alone), reset + B28 + Square,
\* the two frequency words of register 0 for tuning word 53687, the phase
\* word for 0, and B28 + Square.
C7_EightWordsSquareInReset ==
    C7_Scenario => wire = <<256, 8192, 32, 8480, 20919, 16387, 49152, 8224>>

C7_Witness == C7_Scenario /\ Len(wire) = 8

\* ---- C8 ----
\* C8: the first word on the bus is the reset word and the second is B28
\* alone; a completed __init__ wrote exactly these two; every other call
\* starts with both on the bus and follows a completed __init__.
C8_InitializeFirst ==
    /\ Len(wire) >= 1 => wire[1] = 256
    /\ Len(wire) >= 2 => wire[2] = 8192
    /\ Called => calls[1].op = "__init__" /\ calls[1].start = 0
    /\ (Len(calls) = 1 /\ Ok(calls[1])) => Len(wire) = 2
    /\ \A i \in 2..Len(calls) :
          /\ calls[i].op # "__init__"
          /\ Ok(calls[1])
          /\ calls[i].start >= 2
    /\ pc = "Ready" <=> (Called /\ Ok(calls[1]))

C8_Witness ==
    /\ Len(calls) >= 2 /\ Len(wire) > 2

\* ---- C9 ----
\* C9: when the tuning word tw satisfies 0 < tw < 2^28, the low 14 bits of
\* the two frequency words written by set_frequency give back tw as
\* msb * 2^14 + lsb, and both words have the prefix of the register
\* (0x4000 for 0, 0x8000 for 1).
C9_SplitRoundTrip ==
    (Called /\ IsSetFrequency(Last) /\ Len(LastWords) >= 3
        /\ TuningWord(Last.freq) > 0 /\ TuningWord(Last.freq) < DDS_MAX_FREQ) =>
        LET lsb == LastWords[2]
            msb == LastWords[3]
            prefix == IF Last.register = 1 THEN 32768 ELSE 16384
        IN  /\ (msb % 16384) * 16384 + (lsb % 16384) = TuningWord(Last.freq)
            /\ lsb - (lsb % 16384) = prefix
            /\ msb - (msb % 16384) = prefix

C9_Witness ==
    /\ Called /\ IsSetFrequency(Last) /\ Len(LastWords) >= 3
    /\ Last.freq = Hz(5000) /\ Last.register = 1
    /\ LastWords[3] % 16384 # 0

\* ---- C10 ----
\* C10: with the 25 MHz clock the tuning word of 1000 Hz is 10737, and
\* set_frequency(1000, 0) writes 0x4000 + 10737 and then 0x4000; the
\* tuning word of 5000 Hz is 53687 (the quotient is 53687.09) and that of
\* 1953125 / 2^23 Hz is 2 (the quotient is 2.5, rounded to the even integer).
C10_TuningWord1000 ==
    /\ DDS_CLOCK = 25000000
    /\ (Called /\ IsSetFrequency(Last) /\ Last.freq = Hz(1000))
          => TuningWord(Last.freq) = 10737
    /\ (Called /\ IsSetFrequency(Last) /\ Last.freq = Hz(5000))
          => TuningWord(Last.freq) = 53687
    /\ (Called /\ IsSetFrequency(Last) /\ Last.freq = HalfwayHz)
          => TuningWord(Last.freq) = 2
    /\ (Called /\ IsSetFrequency(Last) /\ Last.freq = Hz(1000)
            /\ Last.register = 0 /\ Len(LastWords) >= 3)
          => (LastWords[2] = 16384 + 10737 /\ LastWords[3] = 16384)

C10_Witness ==
    /\ Called /\ IsSetFrequency(Last) /\ Ok(Last)
    /\ Last.freq = Hz(1000) /\ Last.register = 0
\* ---- the tuning word as a function of the frequency ----
\* line 60 applied to two frequencies in turn: `calls` holds the
\* frequencies, `wire` the tuning words computed for them, `frequency` the
\* latest one.  The frequencies are floats n / 2^23 just below, at and just
\* above the quotients 0.5, 1.5 and 2.5, and whole numbers of Hz up to and
\* beyond the clock.
Dyadic(n) == [num |-> n, den |-> 8388608]
FreqGrid ==
    {Dyadic(390625 * k + d) : k \in {1, 3, 5}, d \in {-1, 0, 1}}
    \cup {Hz(n) : n \in {1, 2, 1000, 1001, 5000, 12500000, 24999999, 30000000}}

\* f <= g for two frequencies whose denominators are 1 or 2^23
FreqLeq(f, g) ==
    IF f.den = g.den THEN f.num <= g.num
    ELSE IF f.den = 1 THEN f.num <= g.num \div g.den
    ELSE (f.num + f.den - 1) \div f.den <= g.num

TuneInit ==
    /\ pc = "Encoder"
    /\ waveform_mode = UnsetInt
    /\ active_channel = UnsetInt
    /\ frequency \in FreqGrid
    /\ calls = <<frequency>>
    /\ wire = <<TuningWord(frequency)>>

Tune(freq) ==
    /\ pc = "Encoder"
    /\ Len(calls) = 1
    /\ frequency' = freq
    /\ calls' = Append(calls, freq)
    /\ wire' = Append(wire, TuningWord(freq))
    /\ UNCHANGED <<pc, waveform_mode, active_channel>>

TuneNext == \E freq \in FreqGrid : Tune(freq)

TuneSpec == TuneInit /\ [][TuneNext]_vars

\* ---- C11 ----
\* a frequency above 0 whose tuning word is below 2^28
InRange(f) == f.num > 0 /\ TuningWord(f) < DDS_MAX_FREQ

\* C11: of two in-range frequencies f1 <= f2 the tuning word of f1 is at
\* most that of f2.
C11_TuningWordMonotone ==
    (Len(calls) = 2 /\ InRange(calls[1]) /\ InRange(calls[2])
        /\ FreqLeq(calls[1], calls[2])) => wire[1] <= wire[2]

\* two frequencies on either side of a halfway quotient, 1.4999999 and 1.5000001
C11_Witness ==
    /\ Len(calls) = 2
    /\ calls[1] = Dyadic(1171874) /\ calls[2] = Dyadic(1171876)
    /\ wire[1] < wire[2]

\* ---- the program (lines 92-174) ----
\* float('inf'): a frequency that passes `new_freq <= 0` and on which
\* round() at line 60 raises OverflowError (float('nan') and 1e300 behave
\* alike, nan with ValueError)
InfHz == [num |-> 1, den |-> 0]
NonFinite(freq) == freq.den = 0
MainFreqs == {Hz(5000), InfHz}

\* what the user types at the prompt of line 118, by the branch it takes:
\* 'x' (line 124), a line that is not two fields (128), a second field
\* float() rejects (133, 160), a frequency <= 0 (135), a first field other
\* than s, t, q (149), end of input (EOFError, 162), Ctrl-C
\* (KeyboardInterrupt, 167), and a wave letter with a frequency above 0
NoWriteKinds == {"quit", "malformed", "not_a_number", "not_positive",
                 "unknown_letter", "eof", "interrupt"}
Command(kind, mode, freq) == [kind |-> kind, mode |-> mode, freq |-> freq]
MainCommands ==
    {Command(k, UnsetInt, UnsetFreq) : k \in NoWriteKinds}
    \cup {Command("wave", m, f) : m \in Modes, f \in MainFreqs}

\* what a write raises: an error of the bus (an Exception) or Ctrl-C
Raises == {"bus", "interrupt"}

\* lines 101-107: the words of AD9833(I=I), set_waveform_mode(DDS_SINE)
\* and set_frequency(1000, 0)
StartupWords ==
    InitWords \o SetWaveformModeWords(DDS_SINE, 0)
              \o SetFrequencyWords(DDS_SINE, Hz(1000), 0, 0)

\* lines 154-155: the words of set_waveform_mode(mode_const) and
\* set_frequency(new_freq, 0); line 60 raises on a non-finite frequency
\* before set_frequency writes anything
IterationWords(cmd, channel) ==
    IF cmd.kind # "wave" THEN <<>>
    ELSE SetWaveformModeWords(cmd.mode, channel)
         \o (IF NonFinite(cmd.freq) THEN <<>>
             ELSE SetFrequencyWords(cmd.mode, cmd.freq, 0, 0))

\* (a variant that leaves the chip as it is)
FinallyWords_None == <<>>

\* line 173: the word of the finally block
FinallyWords == <<2^DDS_RESET>>

\* one entry of the history of the program: the step, the command, the
\* write that raised (0: none) and what it raised, how the step was left
MainEvent(op, cmd, opened, failAt, raised, reason) ==
    [op |-> op, kind |-> cmd.kind, mode |-> cmd.mode, freq |-> cmd.freq,
     opened |-> opened, failAt |-> failAt, raised |-> raised,
     reason |-> reason, start |-> Len(wire)]

MainInit ==
    /\ pc = "Start"
    /\ waveform_mode = UnsetInt
    /\ active_channel = UnsetInt
    /\ frequency = UnsetFreq
    /\ wire = <<>>
    /\ calls = <<>>

\* lines 93-108: eyes17.eyes.open() returns a device, returns None
\* (sys.exit(1)) or raises; then the object is built and set to 1000 Hz
\* Sine.  Anything raised here is outside the try of the loop and leads
\* to the finally block.
MainStartup(opened, failAt, raised) ==
    /\ pc = "Start"
    /\ opened # "ok" => failAt = 0 /\ raised = "bus"
    /\ failAt = 0 => raised = "bus"
    /\ IF opened = "ok"
       THEN /\ waveform_mode' = DDS_SINE
            /\ active_channel' = 0
            /\ frequency' = Hz(1000)
            /\ wire' = wire \o Written(StartupWords, failAt)
       ELSE UNCHANGED <<waveform_mode, active_channel, frequency, wire>>
    /\ pc' = IF opened = "ok" /\ failAt = 0 THEN "Loop" ELSE "Finally"
    /\ calls' = Append(calls,
          MainEvent("startup", Command("none", UnsetInt, UnsetFreq), opened, failAt, raised,
                    IF opened = "none" THEN "sysexit"
                    ELSE IF opened = "raise" THEN "error"
                    ELSE IF failAt = 0 THEN "none"
                    ELSE IF raised = "interrupt" THEN "interrupt" ELSE "error"))

\* lines 111-165: one pass through the loop
MainCommand(cmd, failAt, raised) ==
    /\ pc = "Loop"
    /\ Len(calls) < 1 + MaxIterations
    /\ failAt <= Len(IterationWords(cmd, active_channel))
    /\ failAt = 0 => raised = "bus"
    /\ wire' = wire \o Written(IterationWords(cmd, active_channel), failAt)
    /\ IF cmd.kind = "wave"
       THEN /\ waveform_mode' = cmd.mode
            /\ IF failAt = 1
               THEN UNCHANGED <<active_channel, frequency>>
               ELSE active_channel' = 0 /\ frequency' = cmd.freq
       ELSE UNCHANGED <<waveform_mode, active_channel, frequency>>
    /\ LET leaves == IF cmd.kind \in {"quit", "interrupt"} THEN cmd.kind
                     ELSE IF failAt > 0 /\ raised = "interrupt" THEN "interrupt"
                     ELSE "none"
       IN  /\ pc' = IF leaves = "none" THEN "Loop" ELSE "Finally"
           /\ calls' = Append(calls, MainEvent("command", cmd, "ok", failAt, raised, leaves))

\* the object A was bound at line 101: both writes of __init__ returned
ABound == calls[1].opened = "ok" /\ (calls[1].failAt = 0 \/ calls[1].failAt > 2)

\* lines 169-174: the finally block.  It writes only if I is a device; with
\* A unbound A.write raises NameError; nothing catches what the write raises.
MainFinally(fail) ==
    /\ pc = "Finally"
    /\ LET reason == Last.reason
           writes == calls[1].opened = "ok" /\ ABound
           crashes == (calls[1].opened = "ok" /\ ~ABound) \/ (writes /\ fail)
       IN  /\ wire' = IF writes THEN wire \o Written(FinallyWords, IF fail THEN 1 ELSE 0)
                      ELSE wire
           /\ pc' = IF crashes \/ reason = "error" THEN "Crashed"
                    ELSE IF reason = "sysexit" THEN "SysExit"
                    ELSE "Exited"
           /\ calls' = Append(calls,
                 MainEvent("finally", Command("none", UnsetInt, UnsetFreq), calls[1].opened,
                           IF crashes THEN 1 ELSE 0, "bus", reason))
    /\ UNCHANGED <<waveform_mode, active_channel, frequency>>

MainNext ==
    \/ \E opened \in {"ok", "none", "raise"}, failAt \in 0..8, raised \in Raises :
          MainStartup(opened, failAt, raised)
    \/ \E cmd \in MainCommands, failAt \in 0..6, raised \in Raises :
          MainCommand(cmd, failAt, raised)
    \/ \E fail \in BOOLEAN : MainFinally(fail)

MainSpec == MainInit /\ [][MainNext]_vars

\* ---- C13 ----
\* C13: the finally block writes the reset word, and when the program
\* leaves through 'x' or Ctrl-C it ends normally whether or not that write
\* raises.
C13_ShutdownNeverPropagates ==
    (Called /\ Last.op = "finally" /\ Last.reason \in {"quit", "interrupt"} /\ ABound) =>
        /\ pc = "Exited"
        /\ Last.failAt = 0 => (LastWords = <<256>>)

\* ---- C14 ----
\* C14, for the passes in which no write raises: the pass puts either no
\* word on the bus or six, a control word and then the five words of
\* set_frequency(freq, 0).
C14_IterationAllOrNothing ==
    (Called /\ Last.op = "command" /\ Last.failAt = 0) =>
        \/ LastWords = <<>>
        \/ /\ Len(LastWords) = 6
           /\ IsControl(LastWords[1])
           /\ SubSeq(LastWords, 2, 6) = SetFrequencyWords(Last.mode, Last.freq, 0, 0)

\* ---- C17 ----
\* the program has ended after 'x' or Ctrl-C, with the device opened and
\* the object built
C17_EndedByUser ==
    /\ pc \in {"Exited", "Crashed", "SysExit"}
    /\ Last.op = "finally" /\ Last.reason \in {"quit", "interrupt"}
    /\ ABound

C12_PhaseWordMasked ==
    (Called /\ IsSetFrequency(Last) /\ Len(LastWords) >= 4) =>
        /\ LastWords[4] = 49152 + (Last.phase % 4096)
        /\ LastWords[4] \div 4096 = 12
        /\ LastWords[4] < 65536

\* ---- C15 ----
\* C15: when the k-th write of set_frequency raises, the call has put on
\* the bus the first k - 1 of its five words and nothing else: fewer than
\* five, none after the one that raised, the failed one not sent again.
C15_FailureAborts ==
    (Called /\ IsSetFrequency(Last) /\ ~Ok(Last)) =>
        LET five == SetFrequencyWords(Last.mode, Last.freq, Last.register, Last.phase)
        IN  /\ Len(LastWords) = Last.failAt - 1
            /\ Len(LastWords) < 5
            /\ \A i \in 1..Len(LastWords) : LastWords[i] = five[i]

C15_Witness ==
    /\ Called /\ IsSetFrequency(Last) /\ Last.failAt = 3
    /\ Len(LastWords) = 2

\* ---- C16 ----
\* C16: set_waveform_mode leaves the cached frequency and active channel
\* as they were and writes at most one word, a control-register word
\* (bits 15..14 are 00), for every mode and either channel.
C16_WaveformModeFrame ==
    (Called /\ IsSetWaveformMode(Last)) =>
        /\ frequency = Last.pre.frequency
        /\ active_channel = Last.pre.active_channel
        /\ Len(LastWords) = (IF Ok(Last) THEN 1 ELSE 0)
        /\ \A i \in 1..Len(LastWords) : IsControl(LastWords[i])

C16_Witness ==
    /\ Called /\ IsSetWaveformMode(Last) /\ Ok(Last)
    /\ active_channel = 1 /\ Last.mode = DDS_TRIANGLE

\* ---- C18 ----
\* C18 as stated: right after a completed __init__ the cache holds mode
\* Sine, channel 0 and frequency 0.
C18_InitialStateZeroFrequency ==
    (Len(calls) = 1 /\ Ok(Last)) =>
        /\ waveform_mode = DDS_SINE
        /\ active_channel = 0
        /\ frequency = Hz(0)

\* C18 amended: right after a completed __init__ the cache holds mode
\* Sine, channel 0 and frequency 1000.
C18_InitialState1000 ==
    (Len(calls) = 1 /\ Ok(Last)) =>
        /\ waveform_mode = DDS_SINE
        /\ active_channel = 0
        /\ frequency = Hz(1000)

C18_Witness == Len(calls) = 1 /\ Ok(Last) /\ pc = "Ready" /\ Len(wire) = 2

\* ---- C19 ----
\* the latest control-register word on the bus
LastControlWord ==
    LET i == CHOOSE j \in 1..Len(wire) :
                 IsControl(wire[j]) /\ \A k \in (j + 1)..Len(wire) : ~IsControl(wire[k])
    IN  wire[i]

\* C19: after a call none of whose writes raised, the latest control word
\* on the bus has the OPBITEN and MODE bits of the cached waveform_mode and
\* has the reset bit cleared.
C19_ModeAgrees ==
    (Called /\ Ok(Last)) =>
        /\ HasBit(LastControlWord, DDS_OPBITEN) <=> HasBit(waveform_mode, DDS_OPBITEN)
        /\ HasBit(LastControlWord, DDS_MODE) <=> HasBit(waveform_mode, DDS_MODE)
        /\ ~HasBit(LastControlWord, DDS_RESET)

\* a completed set_frequency in Triangle mode after a set_frequency that
\* stopped with the reset bit still set
C19_Witness ==
    /\ Len(calls) = 3
    /\ IsSetFrequency(calls[2]) /\ calls[2].failAt = 2
    /\ IsSetFrequency(Last) /\ Ok(Last)

\* ---- C20 ----
\* the number of words a call put on the bus
NWritten(i) ==
    (IF i = Len(calls) THEN Len(wire) ELSE calls[i + 1].start) - calls[i].start

\* C20: no control word with the reset bit cleared is written while a
\* frequency register is half loaded, that is after a set_frequency call
\* that wrote its LSB word but not its MSB word and before a later
\* set_frequency call wrote its MSB word.
C20_NoEnableOnHalfLoad ==
    \A a \in 1..Len(calls), b \in 1..Len(calls) :
        (/\ a < b
         /\ IsSetFrequency(calls[a]) /\ NWritten(a) = 2
         /\ \A c \in (a + 1)..(b - 1) : ~(IsSetFrequency(calls[c]) /\ NWritten(c) >= 3))
        => ~(IsSetWaveformMode(calls[b]) /\ NWritten(b) = 1
             /\ ~HasBit(wire[calls[b].start + 1], DDS_RESET))
====
